---- MODULE Spec2Model ----
(***************************************************************************)
(* InventoryTracker (src/py/InventoryTracker.py): the aggregation store,   *)
(* the per-frame deduplicating update, the summary and the lazy video      *)
(* stream; and the Streamlit app that drives it (src/app.py with           *)
(* handle_image and handle_video).                                         *)
(*                                                                         *)
(* Abstractions.  Confidences are hundredths (90 stands for 0.90), so      *)
(* np.mean(..) * 100 is the exact quotient sum / length and round() is     *)
(* round-half-to-even on that quotient, ties falling where exact           *)
(* arithmetic puts them.  A string f"{int(..)}" is the                     *)
(* sequence of its decimal digits.  A frame is the list of the detections  *)
(* of that frame in the order of results.boxes: every raw box is tracked,  *)
(* so results.boxes.conf[i] is the confidence of the i-th detection.  A    *)
(* DataFrame is the set of its rows (the row order is not modelled).       *)
(***************************************************************************)
EXTENDS Integers, Sequences, FiniteSets, TLC

VARIABLES
    frame_count,          \* self.frame_count
    class_appearances,    \* self.class_appearances : defaultdict(int)
    overall_tracked_ids,  \* self.overall_tracked_ids : defaultdict(set)
    confidence,           \* self.confidence : defaultdict(list)
    label_mode,           \* self.label_mode
    sku_lookup,           \* the module-level catalog dict, loaded once
    last_call,            \* the operation that ran last and how it ended
    ret,                  \* what that operation returned
    stream,               \* the generator made by track_video_stream
    submitted,            \* history: (sku, track id) pairs passed in since the last reset
    introduced,           \* history: the tracks the last frame update recorded, each with its event's confidence and the sample appended
    scenario,             \* history: progress along the three-frame scenario of the spec, -1 when off it
    calls,                \* history: track_picture_stream calls since the last reset
    wiped,                \* history: what the store held when the call before this state reset it
    abandoned,            \* the generator the caller stopped pulling and has not dropped yet: its position, "none" without one
    app,                  \* the Streamlit session: the script run of app.py and the handler it is in
    expected,             \* history: the store that holds the frames of the current upload alone
    requested,            \* history: the label_mode last asked for, by the constructor's argument or an assignment
    recording             \* whether this behaviour keeps the history above

vars == <<frame_count, class_appearances, overall_tracked_ids, confidence,
          label_mode, sku_lookup, last_call, ret, stream, abandoned, app, expected,
          submitted, introduced, scenario, calls, wiped, requested, recording>>

history_vars == <<submitted, introduced, scenario, calls, wiped, requested>>

store_vars == <<frame_count, class_appearances, overall_tracked_ids, confidence>>

(***************************************************************************)
(* Bounds and input sets                                                   *)
(***************************************************************************)
MaxFrames == 3     \* frames processed between two resets
MaxDets == 2       \* detections in one frame
MaxVideo == 3      \* frames of an uploaded video

\* self.model.model.names: class id (0-based) -> sku code
names(class_id) == <<"sku_1", "sku_2", "sku_3">>[class_id + 1]

\* One tracked detection of a frame: det[3], det[4] and its own confidence.
Det(c, t, p) == [class_id |-> c, tracker_id |-> t, conf |-> p]

Detections ==
    { Det(0, 7, 90), Det(0, 7, 85), Det(0, 8, 70), Det(1, 7, 70), Det(2, 8, 90) }

Frames == UNION { [1..n -> Detections] : n \in 0..MaxDets }

SkuCodes == { names(d.class_id) : d \in Detections }

\* sku_lookup as label_catalog.set_index("sku_code").to_dict(orient="index") builds it
CatalogFull ==
    [s \in {"sku_1", "sku_2"} |->
        IF s = "sku_1"
        THEN [item_name |-> "cola", brand |-> "X", sub_category |-> "soda", category |-> "drinks"]
        ELSE [item_name |-> "tonic", brand |-> "X", sub_category |-> "mixer", category |-> "drinks"]]

\* a catalog without the sub_category column and without a row for sku_2
CatalogPartial ==
    [s \in {"sku_1"} |-> [item_name |-> "cola", brand |-> "X", category |-> "drinks"]]

Catalogs == {CatalogFull, CatalogPartial}

valid_label_modes == {"sku_code", "item_name", "brand", "sub_category", "category"}

(***************************************************************************)
(* dict helpers                                                            *)
(***************************************************************************)
EmptyDict == <<>>

\* the value of a call that returns nothing, or raised
None == "None"

\* d.get(k, default)
Get(d, k, default) == IF k \in DOMAIN d THEN d[k] ELSE default

\* d[k] = v
Put(d, k, v) == [x \in (DOMAIN d) \cup {k} |-> IF x = k THEN v ELSE d[x]]

RECURSIVE SumSeq(_)
SumSeq(s) == IF s = <<>> THEN 0 ELSE s[1] + SumSeq(Tail(s))

RECURSIVE SumOver(_, _)
\* sum of f[x] over x in S
SumOver(f, S) ==
    IF S = {} THEN 0
    ELSE LET x == CHOOSE y \in S : TRUE IN f[x] + SumOver(f, S \ {x})

\* int(round(n / d)) for n >= 0, d > 0: Python rounds half to even
RoundHalfEven(n, d) ==
    LET q == n \div d
        r == n % d
    IN  IF 2 * r < d THEN q
        ELSE IF 2 * r > d THEN q + 1
        ELSE IF q % 2 = 0 THEN q ELSE q + 1

RECURSIVE IntToStr(_)
\* f"{n}" for n >= 0, as the sequence of its decimal digits
IntToStr(n) == IF n < 10 THEN <<n>> ELSE Append(IntToStr(n \div 10), n % 10)

RECURSIVE StrToFloat(_)
\* float(v) of a string of decimal digits
StrToFloat(s) ==
    IF Len(s) = 1 THEN s[1]
    ELSE 10 * StrToFloat(SubSeq(s, 1, Len(s) - 1)) + s[Len(s)]

(***************************************************************************)
(* The store: the four fields reset_output_stats assigns                   *)
(***************************************************************************)
Self ==
    [frame_count |-> frame_count,
     class_appearances |-> class_appearances,
     overall_tracked_ids |-> overall_tracked_ids,
     confidence |-> confidence]

Assign(self) ==
    /\ frame_count' = self.frame_count
    /\ class_appearances' = self.class_appearances
    /\ overall_tracked_ids' = self.overall_tracked_ids
    /\ confidence' = self.confidence

\* __init__: validate and assign label_mode
init_label_mode(mode) ==
    IF mode \notin valid_label_modes THEN "item_name" ELSE mode

\* a reset that forgets to clear the confidence samples
reset_keeps_confidence(self) ==
    [frame_count |-> 0,
     class_appearances |-> EmptyDict,
     overall_tracked_ids |-> EmptyDict,
     confidence |-> self.confidence]

\* reset_output_stats(self)
reset_output_stats(self) ==
    [frame_count |-> 0,
     class_appearances |-> EmptyDict,
     overall_tracked_ids |-> EmptyDict,
     confidence |-> EmptyDict]

(***************************************************************************)
(* track_picture_stream                                                    *)
(***************************************************************************)
\* a frame counter that counts only the frames with detections
count_frame_with_detections(self, frame) ==
    IF frame = <<>> THEN self ELSE [self EXCEPT !.frame_count = @ + 1]

\* self.frame_count += 1, the first statement of track_picture_stream
count_frame(self, frame) == [self EXCEPT !.frame_count = @ + 1]

\* results.boxes.conf
boxes_conf(frame) == [i \in 1..Len(frame) |-> frame[i].conf]

\* hasattr(det, 'conf'): iterating sv.Detections yields plain tuples
det_has_conf == FALSE

\* confidence = det.conf if hasattr(det, 'conf') else results.boxes.conf[class_id]:
\* whether the index is out of range, which raises IndexError
indexed_confidence_raises(det, frame) ==
    ~det_has_conf /\ det.class_id >= Len(boxes_conf(frame))

\* the second extraction, whose value is the one appended
extract_confidence(det, frame) ==
    IF det_has_conf THEN det.conf
    ELSE IF Len(boxes_conf(frame)) > det.class_id
         THEN boxes_conf(frame)[det.class_id + 1]
         ELSE 0

\* a deduplication that counts an appearance at every sighting
dedup_counts_every_sighting(self, detected_sku, tracker_id, conf) ==
    IF tracker_id \notin Get(self.overall_tracked_ids, detected_sku, {})
    THEN [self EXCEPT
            !.overall_tracked_ids =
                Put(@, detected_sku, Get(@, detected_sku, {}) \cup {tracker_id}),
            !.class_appearances = Put(@, detected_sku, Get(@, detected_sku, 0) + 1),
            !.confidence = Put(@, detected_sku, Append(Get(@, detected_sku, <<>>), conf))]
    ELSE [self EXCEPT
            !.class_appearances = Put(@, detected_sku, Get(@, detected_sku, 0) + 1)]

\* a deduplication that puts the new sample in front of the earlier ones
dedup_prepends_sample(self, detected_sku, tracker_id, conf) ==
    IF tracker_id \notin Get(self.overall_tracked_ids, detected_sku, {})
    THEN [self EXCEPT
            !.overall_tracked_ids =
                Put(@, detected_sku, Get(@, detected_sku, {}) \cup {tracker_id}),
            !.class_appearances = Put(@, detected_sku, Get(@, detected_sku, 0) + 1),
            !.confidence = Put(@, detected_sku, <<conf>> \o Get(@, detected_sku, <<>>))]
    ELSE self

\* the deduplication of one event
dedup(self, detected_sku, tracker_id, conf) ==
    IF tracker_id \notin Get(self.overall_tracked_ids, detected_sku, {})
    THEN [self EXCEPT
            !.overall_tracked_ids =
                Put(@, detected_sku, Get(@, detected_sku, {}) \cup {tracker_id}),
            !.class_appearances = Put(@, detected_sku, Get(@, detected_sku, 0) + 1),
            !.confidence = Put(@, detected_sku, Append(Get(@, detected_sku, <<>>), conf))]
    ELSE self

RECURSIVE track_detections(_, _, _)
\* for det in tracked_detections, from the i-th on: the store it leaves and
\* whether the loop was left by an exception
track_detections(self, frame, i) ==
    IF i > Len(frame) THEN [self |-> self, raised |-> FALSE]
    ELSE LET det == frame[i] IN
         IF indexed_confidence_raises(det, frame)
         THEN [self |-> self, raised |-> TRUE]
         ELSE track_detections(
                  dedup(self, names(det.class_id), det.tracker_id,
                        extract_confidence(det, frame)),
                  frame, i + 1)

\* a live summary with an entry for every class name of the model
live_summary_all_names(self) ==
    [name \in {names(c) : c \in 0..2} |->
        Cardinality(Get(self.overall_tracked_ids, name, {}))]

\* live_summary = {name: len(ids) for name, ids in ... if len(ids) > 0}
live_summary(self) ==
    [name \in {n \in DOMAIN self.overall_tracked_ids : self.overall_tracked_ids[n] # {}}
        |-> Cardinality(self.overall_tracked_ids[name])]

\* track_picture_stream(self, frame): the store it leaves, whether it raised,
\* and the live summary it returns when it did not
track_picture_stream(self, frame) ==
    LET r == track_detections(count_frame(self, frame), frame, 1)
    IN  [self |-> r.self, raised |-> r.raised,
         live_summary |-> IF r.raised THEN None ELSE live_summary(r.self)]

\* track_picture_stream(self, frame) when self.model(frame, ..) or the tracker
\* raises (lines 72-74): the store the exception leaves behind
track_picture_stream_detector_fails(self) == count_frame(self, <<>>)

(***************************************************************************)
(* get_output_stats                                                        *)
(***************************************************************************)
\* pd.DataFrame(): no rows
EmptyDataFrame == {}

\* a label lookup without the fallback to the sku: meta.get(label_mode)
key_value_without_fallback(sku, mode, lookup) ==
    IF mode = "sku_code" THEN sku
    ELSE Get(Get(lookup, sku, EmptyDict), mode, None)

\* meta = sku_lookup.get(sku, {});
\* key_value = sku if label_mode == "sku_code" else meta.get(label_mode, sku)
key_value(sku, mode, lookup) ==
    IF mode = "sku_code" THEN sku
    ELSE Get(Get(lookup, sku, EmptyDict), mode, sku)

\* int(round(np.mean(self.confidence.get(sku, [0])) * 100))
mean_confidence(self, sku) ==
    LET samples == Get(self.confidence, sku, <<0>>)
    IN  RoundHalfEven(SumSeq(samples), Len(samples))

\* int(round((appearance_frames / self.frame_count) * 100))
presence_percentage(self, sku) ==
    RoundHalfEven(100 * Get(self.class_appearances, sku, 0), self.frame_count)

\* summary_data: one row per sku whose id set is not empty, keyed here by the sku
summary_data(self, mode, lookup) ==
    [sku \in {k \in DOMAIN self.overall_tracked_ids : self.overall_tracked_ids[k] # {}} |->
        [label |-> key_value(sku, mode, lookup),
         count |-> Cardinality(self.overall_tracked_ids[sku]),
         confidence |-> IntToStr(mean_confidence(self, sku)),
         frame_presence |-> IntToStr(presence_percentage(self, sku))]]

\* a group mean weighted by the count of each row
group_mean_weighted(rows, members, column) ==
    IntToStr(RoundHalfEven(
        SumOver([s \in members |-> rows[s].count * StrToFloat(rows[s][column])], members),
        SumOver([s \in members |-> rows[s].count], members)))

\* lambda x: f"{int(round(np.mean([float(v) for v in x])))}" over the rows of one group
group_mean(rows, members, column) ==
    IntToStr(RoundHalfEven(
        SumOver([s \in members |-> StrToFloat(rows[s][column])], members),
        Cardinality(members)))

\* a grouping that keeps the count of one row of the group instead of the sum
groupby_keeps_one_count(rows) ==
    { LET members == {s \in DOMAIN rows : rows[s].label = l} IN
        [label |-> l,
         count |-> rows[CHOOSE s \in members : TRUE].count,
         confidence |-> group_mean(rows, members, "confidence"),
         frame_presence |-> group_mean(rows, members, "frame_presence")]
      : l \in {rows[s].label : s \in DOMAIN rows} }

\* output.groupby(label_mode, as_index=False).agg({...})
groupby(rows) ==
    { LET members == {s \in DOMAIN rows : rows[s].label = l} IN
        [label |-> l,
         count |-> SumOver([s \in members |-> rows[s].count], members),
         confidence |-> group_mean(rows, members, "confidence"),
         frame_presence |-> group_mean(rows, members, "frame_presence")]
      : l \in {rows[s].label : s \in DOMAIN rows} }

\* a summary that reports a store without frames by a row of zeros
get_output_stats_zero_row(self, mode, lookup) ==
    IF self.frame_count = 0
    THEN {[label |-> None, count |-> 0, confidence |-> <<0>>, frame_presence |-> <<0>>]}
    ELSE LET rows == summary_data(self, mode, lookup) IN
         IF mode # "sku_code" /\ DOMAIN rows # {}
         THEN groupby(rows)
         ELSE {rows[s] : s \in DOMAIN rows}

\* get_output_stats(self): the rows of the DataFrame it returns
get_output_stats(self, mode, lookup) ==
    IF self.frame_count = 0 THEN EmptyDataFrame
    ELSE LET rows == summary_data(self, mode, lookup) IN
         IF mode # "sku_code" /\ DOMAIN rows # {}
         THEN groupby(rows)
         ELSE {rows[s] : s \in DOMAIN rows}

\* a summary that reads self.class_appearances[sku] for every class name of the model
get_output_stats_reads_all_names(self) ==
    IF self.frame_count = 0 THEN self
    ELSE [self EXCEPT !.class_appearances =
            [k \in (DOMAIN @) \cup {names(c) : c \in 0..2} |-> Get(@, k, 0)]]

\* the store get_output_stats leaves: of its reads only self.class_appearances[sku]
\* writes, a defaultdict making the key it is asked for; it is asked for the
\* skus whose id set is not empty
get_output_stats_store(self) ==
    IF self.frame_count = 0 THEN self
    ELSE [self EXCEPT !.class_appearances =
            [k \in (DOMAIN @) \cup
                    {sku \in DOMAIN self.overall_tracked_ids :
                        self.overall_tracked_ids[sku] # {}}
                |-> Get(@, k, 0)]]

(***************************************************************************)
(* History kept for the properties (no code reads it)                      *)
(***************************************************************************)
\* the (sku, track id) pairs of the events of a frame
Pairs(frame) == { <<names(frame[i].class_id), frame[i].tracker_id>> : i \in 1..Len(frame) }

RECURSIVE IntroducedBy(_, _, _, _)
\* the events of frame[i..] that are the frame's first mention of a track of
\* newIds under sku, in the order of the frame
IntroducedBy(frame, i, sku, newIds) ==
    IF i > Len(frame) THEN <<>>
    ELSE LET d == frame[i]
             first == /\ names(d.class_id) = sku
                      /\ d.tracker_id \in newIds
                      /\ \A j \in 1..(i - 1) :
                            ~(frame[j].class_id = d.class_id /\ frame[j].tracker_id = d.tracker_id)
         IN  (IF first THEN <<d>> ELSE <<>>) \o IntroducedBy(frame, i + 1, sku, newIds)

\* the tracks a frame update recorded while it took the store from before to
\* after: for each, the event that introduced it and the sample appended for it
Introduced(before, after, frame) ==
    UNION { LET old == Get(before.overall_tracked_ids, sku, {})
                evs == IntroducedBy(frame, 1, sku, after.overall_tracked_ids[sku] \ old)
                base == Len(Get(before.confidence, sku, <<>>))
            IN  { [sku |-> sku, tracker_id |-> evs[k].tracker_id, conf |-> evs[k].conf,
                   sample |-> after.confidence[sku][base + k]] : k \in 1..Len(evs) }
          : sku \in DOMAIN after.overall_tracked_ids }

\* the spec's scenario: frame 1 (sku_1, 7, 0.9); frame 2 (sku_1, 7, 0.85) and
\* (sku_1, 8, 0.7) in either order; frame 3 without detections
ScenarioAfter(k, frame) ==
    IF k = 0 /\ frame = <<Det(0, 7, 90)>> THEN 1
    ELSE IF k = 1 /\ frame \in { <<Det(0, 7, 85), Det(0, 8, 70)>>,
                                 <<Det(0, 8, 70), Det(0, 7, 85)>> } THEN 2
    ELSE IF k = 2 /\ frame = <<>> THEN 3
    ELSE -1

NoStream == [state |-> "none", pulled |-> 0, yielded |-> 0]

\* a generator that was started or can be started, and has not finished
StreamLive == stream.state \in {"created", "suspended"}

(***************************************************************************)
(* Initial state: InventoryTracker(label_mode = mode)                      *)
(***************************************************************************)
ConstructorModes == valid_label_modes \cup {"colour"}

\* an empty store's content
Nothing == [frames |-> 0, tracks |-> 0]

\* st.empty(): a placeholder that shows nothing yet
Blank == [kind |-> "empty", rows |-> {}]

\* the session before app.py has run: the tracker has no model_path attribute;
\* cap is the cv2.VideoCapture of handle_video ("none" outside it, "unopened"
\* when the file could not be opened), tmp_file whether its temporary file exists
NoSession ==
    [pc |-> "idle", model_path |-> None, model_changed |-> FALSE, found_counts |-> FALSE,
     handler |-> "none", outcome |-> "none", idx |-> 0, last_update_frame |-> 0,
     update_interval_frames |-> 0, displayed |-> Blank, refreshed |-> {},
     cap |-> "none", tmp_file |-> FALSE]

\* the object __init__ works on: reset_output_stats reads none of its fields
NewObject ==
    [frame_count |-> 0,
     class_appearances |-> EmptyDict,
     overall_tracked_ids |-> EmptyDict,
     confidence |-> EmptyDict]

\* the state InventoryTracker(label_mode = mode) leaves, the catalog being lookup
Constructed(mode, lookup) ==
    /\ label_mode = init_label_mode(mode)
    /\ sku_lookup = lookup
    /\ frame_count = reset_output_stats(NewObject).frame_count
    /\ class_appearances = reset_output_stats(NewObject).class_appearances
    /\ overall_tracked_ids = reset_output_stats(NewObject).overall_tracked_ids
    /\ confidence = reset_output_stats(NewObject).confidence
    /\ last_call = "__init__"
    /\ ret = None
    /\ stream = NoStream
    /\ abandoned = "none"
    /\ app = NoSession
    /\ expected = NewObject
    /\ submitted = {}
    /\ introduced = {}
    /\ scenario = 0
    /\ calls = 0
    /\ wiped = Nothing

Init ==
    /\ \E mode \in ConstructorModes, lookup \in Catalogs :
          Constructed(mode, lookup) /\ requested = mode
    /\ recording = TRUE

\* the app's tracker: InventoryTracker() with the default label_mode
InitApp ==
    /\ Constructed("item_name", CatalogFull)
    /\ requested = "item_name"
    /\ recording = TRUE

\* every tracker and catalog, no history kept
InitSummary ==
    /\ \E mode \in ConstructorModes, lookup \in Catalogs : Constructed(mode, lookup)
    /\ requested = None
    /\ recording = FALSE

\* the history after a reset, and after a frame update on the history (sub, scen, cnt)
HistoryReset ==
    /\ submitted' = {}
    /\ introduced' = {}
    /\ scenario' = 0
    /\ calls' = 0
    /\ wiped' = IF recording
                THEN [frames |-> frame_count,
                      tracks |-> SumOver([c \in DOMAIN overall_tracked_ids |->
                                            Cardinality(overall_tracked_ids[c])],
                                         DOMAIN overall_tracked_ids)]
                ELSE wiped
    /\ UNCHANGED <<requested, recording>>

HistoryFrame(before, after, sub, scen, cnt, frame) ==
    /\ submitted' = IF recording THEN sub \cup Pairs(frame) ELSE submitted
    /\ introduced' = IF recording THEN Introduced(before, after, frame) ELSE introduced
    /\ scenario' = IF recording THEN ScenarioAfter(scen, frame) ELSE scenario
    /\ calls' = IF recording THEN cnt + 1 ELSE calls
    /\ wiped' = Nothing
    /\ UNCHANGED <<requested, recording>>

\* the history after a call that is no frame update and no reset
HistoryKept ==
    /\ introduced' = {}
    /\ wiped' = Nothing
    /\ UNCHANGED <<submitted, scenario, calls, requested, recording>>

\* the history after a frame update that the detector's exception ended
HistoryFailed(cnt) ==
    /\ introduced' = {}
    /\ wiped' = Nothing
    /\ scenario' = IF recording THEN -1 ELSE scenario
    /\ calls' = IF recording THEN cnt + 1 ELSE calls
    /\ UNCHANGED <<requested, recording>>

\* the history after an assignment of mode to label_mode
HistoryAssigned(mode) ==
    /\ introduced' = {}
    /\ wiped' = Nothing
    /\ requested' = IF recording THEN mode ELSE requested
    /\ UNCHANGED <<submitted, scenario, calls, recording>>

(***************************************************************************)
(* Operations.  The handlers are single-threaded: while handle_video       *)
(* iterates a generator it calls nothing but get_output_stats, and the     *)
(* generator is gone when handle_video has returned.                       *)
(***************************************************************************)
\* tracker.reset_output_stats(), called by the app between streams
ResetOutputStats ==
    /\ ~StreamLive
    /\ Assign(reset_output_stats(Self))
    /\ last_call' = "reset_output_stats"
    /\ ret' = None
    /\ stream' = NoStream
    /\ HistoryReset
    /\ UNCHANGED <<label_mode, sku_lookup, app, expected, abandoned>>

\* tracker.track_picture_stream(frame, ..), called directly (handle_image)
TrackPictureStream(frame) ==
    /\ ~StreamLive
    /\ frame_count < MaxFrames
    /\ \E r \in {track_picture_stream(Self, frame)} :
        /\ Assign(r.self)
        /\ ret' = r.live_summary
        /\ last_call' = IF r.raised THEN "track_picture_stream raised"
                        ELSE "track_picture_stream"
        /\ HistoryFrame(Self, r.self, submitted, scenario, calls, frame)
    /\ stream' = NoStream
    /\ UNCHANGED <<label_mode, sku_lookup, app, expected, abandoned>>

\* tracker.track_picture_stream(frame, ..) on a frame the detector fails on
TrackPictureStreamFails ==
    /\ ~StreamLive
    /\ frame_count < MaxFrames
    /\ Assign(track_picture_stream_detector_fails(Self))
    /\ ret' = None
    /\ last_call' = "track_picture_stream detector failed"
    /\ stream' = NoStream
    /\ HistoryFailed(calls)
    /\ UNCHANGED <<submitted, label_mode, sku_lookup, app, expected, abandoned>>

\* tracker.get_output_stats()
GetOutputStats ==
    /\ ret' = get_output_stats(Self, label_mode, sku_lookup)
    /\ Assign(get_output_stats_store(Self))
    /\ last_call' = "get_output_stats"
    /\ stream' = IF StreamLive THEN stream ELSE NoStream
    /\ HistoryKept
    /\ UNCHANGED <<label_mode, sku_lookup, app, expected, abandoned>>

\* tracker.label_mode = st.selectbox(..) in app.py
SetLabelMode(mode) ==
    /\ ~StreamLive
    /\ mode # label_mode
    /\ label_mode' = mode
    /\ last_call' = "label_mode"
    /\ ret' = None
    /\ stream' = NoStream
    /\ HistoryAssigned(mode)
    /\ UNCHANGED <<store_vars, sku_lookup, app, expected, abandoned>>

\* tracker.track_video_stream(frame_generator(), ..): calling a generator
\* function runs none of its body
TrackVideoStream ==
    /\ ~StreamLive
    /\ stream' = [state |-> "created", pulled |-> 0, yielded |-> 0]
    /\ last_call' = "track_video_stream"
    /\ ret' = None
    /\ HistoryKept
    /\ UNCHANGED <<store_vars, label_mode, sku_lookup, app, expected, abandoned>>

\* the store a pull works on: the first pull runs self.reset_output_stats()
stream_entry(self, state) ==
    IF state = "created" THEN reset_output_stats(self) ELSE self

\* next() on the generator while the source has a frame: the loop body runs
\* track_picture_stream on it and yields its result, or lets its exception out
StreamNextFrame(frame) ==
    /\ StreamLive
    /\ stream.pulled < MaxFrames
    /\ \E first \in {stream.state = "created"} :
       \E before \in {stream_entry(Self, stream.state)} :
       \E r \in {track_picture_stream(before, frame)} :
           /\ Assign(r.self)
           /\ ret' = r.live_summary
           /\ last_call' = IF r.raised THEN "next raised" ELSE "next"
           /\ stream' = [state |-> IF r.raised THEN "raised" ELSE "suspended",
                         pulled |-> stream.pulled + 1,
                         yielded |-> IF r.raised THEN stream.yielded ELSE stream.yielded + 1]
           /\ HistoryFrame(before, r.self,
                           IF first THEN {} ELSE submitted,
                           IF first THEN 0 ELSE scenario,
                           IF first THEN 0 ELSE calls,
                           frame)
    /\ UNCHANGED <<label_mode, sku_lookup, app, expected, abandoned>>

\* next() on the generator while the source has a frame the detector fails
\* on: the exception of track_picture_stream leaves the generator
StreamNextFails ==
    /\ StreamLive
    /\ stream.pulled < MaxFrames
    /\ \E first \in {stream.state = "created"} :
           /\ Assign(track_picture_stream_detector_fails(stream_entry(Self, stream.state)))
           /\ HistoryFailed(IF first THEN 0 ELSE calls)
           /\ submitted' = IF first /\ recording THEN {} ELSE submitted
    /\ ret' = None
    /\ last_call' = "next detector failed"
    /\ stream' = [stream EXCEPT !.state = "failed", !.pulled = @ + 1]
    /\ UNCHANGED <<label_mode, sku_lookup, app, expected, abandoned>>

\* next() on the generator when the source is exhausted: the for loop ends
\* and the generator returns (StopIteration)
StreamStop ==
    /\ StreamLive
    /\ Assign(stream_entry(Self, stream.state))
    /\ IF stream.state = "created" THEN HistoryReset ELSE HistoryKept
    /\ stream' = [stream EXCEPT !.state = "exhausted"]
    /\ last_call' = "next stopped"
    /\ ret' = None
    /\ UNCHANGED <<label_mode, sku_lookup, app, expected, abandoned>>

\* generator.close(), which the interpreter runs when the generator is
\* dropped: GeneratorExit is raised at the yield of a suspended generator, and
\* track_video_stream has no finally or except around it
stream_close(self, state) == self

\* the caller stops pulling: it leaves the for loop over the generator, or
\* never enters it, and keeps the generator
StreamAbandon ==
    /\ StreamLive
    /\ abandoned = "none"
    /\ abandoned' = stream.state
    /\ stream' = NoStream
    /\ last_call' = "abandon"
    /\ ret' = None
    /\ HistoryKept
    /\ UNCHANGED <<store_vars, label_mode, sku_lookup, app, expected>>

\* the abandoned generator is dropped, at any later time
StreamDiscard ==
    /\ abandoned # "none"
    /\ Assign(stream_close(Self, abandoned))
    /\ abandoned' = "none"
    /\ last_call' = "discard"
    /\ ret' = None
    /\ introduced' = {}
    /\ UNCHANGED <<label_mode, sku_lookup, stream, app, expected,
                   submitted, scenario, calls, wiped, requested, recording>>

Next ==
    \/ ResetOutputStats
    \/ \E frame \in Frames : TrackPictureStream(frame)
    \/ TrackPictureStreamFails
    \/ StreamNextFails
    \/ GetOutputStats
    \/ \E mode \in valid_label_modes : SetLabelMode(mode)
    \/ TrackVideoStream
    \/ \E frame \in Frames : StreamNextFrame(frame)
    \/ StreamStop

Spec == Init /\ [][Next]_vars

\* the store under the app's tracker, whose label_mode stays the default
NextStore ==
    \/ ResetOutputStats
    \/ \E frame \in Frames : TrackPictureStream(frame)
    \/ TrackPictureStreamFails
    \/ StreamNextFails
    \/ GetOutputStats
    \/ TrackVideoStream
    \/ \E frame \in Frames : StreamNextFrame(frame)
    \/ StreamStop

StoreSpec == InitApp /\ [][NextStore]_vars

\* the summary under every label mode and catalog, the store driven by direct calls
NextSummary ==
    \/ ResetOutputStats
    \/ \E frame \in Frames : TrackPictureStream(frame)
    \/ GetOutputStats
    \/ \E mode \in valid_label_modes : SetLabelMode(mode)

SummarySpec == InitSummary /\ [][NextSummary]_vars

\* the store under a caller that may stop pulling a stream and start another
NextCancel ==
    \/ NextStore
    \/ StreamAbandon
    \/ StreamDiscard

CancelSpec == InitApp /\ [][NextCancel]_vars

\* every tracker over the full catalog, no history kept
InitRead ==
    /\ \E mode \in ConstructorModes : Constructed(mode, CatalogFull)
    /\ requested = None
    /\ recording = FALSE

\* every label mode under every operation of the tracker
ReadSpec == InitRead /\ [][Next]_vars

(***************************************************************************)
(* The app (src/app.py) and its handlers.  Streamlit runs app.py from the  *)
(* top at every interaction, also while a handler is still in its loop:    *)
(* the run in progress is dropped where it stands.  What the detector and  *)
(* the tracker make of a picture is an input: a shot is the list of the    *)
(* tracked detections, or the detector's failure.                          *)
(***************************************************************************)
model_choices == {"models/model_25-08-02.pt", "models/yolov8n.pt"}

\* the options of the label_mode selectbox the runs choose among
label_mode_options == {"item_name", "brand"}

AppFrames ==
    { <<>>, <<Det(0, 7, 90)>>, <<Det(0, 7, 85), Det(0, 8, 70)>>, <<Det(1, 7, 70)>> }

Shots ==
    {[detections |-> f, detector_ok |-> TRUE] : f \in AppFrames}
        \cup {[detections |-> <<>>, detector_ok |-> FALSE]}

NoShot == [detections |-> <<>>, detector_ok |-> TRUE]

\* update_interval_frames = int(fps * 3)
UpdateIntervals == {1, 2}

\* st.file_uploader: nothing, an image, or a video that opens or does not
Uploads ==
    {[kind |-> "none", shot |-> NoShot, opened |-> FALSE, update_interval_frames |-> 0]}
        \cup {[kind |-> "image", shot |-> sh, opened |-> FALSE, update_interval_frames |-> 0]
                : sh \in Shots}
        \cup {[kind |-> "video", shot |-> NoShot, opened |-> o, update_interval_frames |-> i]
                : o \in BOOLEAN, i \in UpdateIntervals}

\* a model selection that loads the model and keeps the statistics
select_model_keeps_stats(self, model_selected, model_path) == self

\* if model_selected != getattr(tracker, "model_path", None): ...; tracker.reset_output_stats()
select_model(self, model_selected, model_path) ==
    IF model_selected # model_path THEN reset_output_stats(self) ELSE self

\* what the table area shows for output_stats: the dataframe, or an info line when it is empty
Show(output_stats) ==
    IF output_stats = EmptyDataFrame
    THEN [kind |-> "info", rows |-> EmptyDataFrame]
    ELSE [kind |-> "dataframe", rows |-> output_stats]

\* handle_image(uploaded_file, tracker): the store it leaves, how it ended and the table shown
handle_image(self, shot, mode, lookup) ==
    LET fresh == reset_output_stats(self) IN
    IF ~shot.detector_ok
    THEN [self |-> track_picture_stream_detector_fails(fresh),
          outcome |-> "error", displayed |-> Blank]
    ELSE LET r == track_picture_stream(fresh, shot.detections) IN
         IF r.raised
         THEN [self |-> r.self, outcome |-> "error", displayed |-> Blank]
         ELSE [self |-> get_output_stats_store(r.self),
               outcome |-> "done",
               displayed |-> Show(get_output_stats(r.self, mode, lookup))]

\* if idx == 0 or idx - last_update_frame >= update_interval_frames
refresh_due(session) ==
    session.idx = 0 \/ session.idx - session.last_update_frame >= session.update_interval_frames

\* one turn of the for loop of handle_video on the next shot of the video:
\* the pull from track_video_stream, then the body with the periodic refresh;
\* an exception goes to the except block, which leaves the table as it is
handle_video_frame(self, session, shot, mode, lookup) ==
    LET before == stream_entry(self, IF session.idx = 0 THEN "created" ELSE "suspended") IN
    IF ~shot.detector_ok
    THEN [self |-> track_picture_stream_detector_fails(before),
          session |-> [session EXCEPT !.pc = "idle", !.outcome = "error"]]
    ELSE LET r == track_picture_stream(before, shot.detections) IN
         IF r.raised
         THEN [self |-> r.self,
               session |-> [session EXCEPT !.pc = "idle", !.outcome = "error"]]
         ELSE IF refresh_due(session)
         THEN [self |-> get_output_stats_store(r.self),
               session |-> [session EXCEPT
                               !.displayed = Show(get_output_stats(r.self, mode, lookup)),
                               !.last_update_frame = session.idx,
                               !.refreshed = @ \cup {session.idx},
                               !.idx = @ + 1]]
         ELSE [self |-> r.self, session |-> [session EXCEPT !.idx = @ + 1]]

\* the end of handle_video after its loop: frame_generator has left its
\* while loop and released the capture (line 117), the progress bar is
\* emptied and the temporary file removed (lines 185-189)
handle_video_cleanup(session) ==
    [session EXCEPT !.pc = "idle", !.outcome = "done",
                    !.cap = "released", !.tmp_file = FALSE]

\* the store that holds this shot on top of what self holds
Replay(self, shot) ==
    IF shot.detector_ok THEN track_picture_stream(self, shot.detections).self
    ELSE track_picture_stream_detector_fails(self)

\* the tracker of the session: InventoryTracker(), no history kept
InitSession ==
    /\ Constructed("item_name", CatalogFull)
    /\ requested = None
    /\ recording = FALSE

\* one run of app.py up to its handler: the model selection (lines 80-85),
\* the label_mode assignment (88), and for an upload the reset of line 111 and
\* handle_image as a whole, or handle_video up to its loop
ScriptRun(model_selected, mode, upload) ==
    /\ \E selected \in {select_model(Self, model_selected, app.model_path)} :
       \E session \in {[NoSession EXCEPT
                          !.model_path = model_selected,
                          !.model_changed = (model_selected # app.model_path),
                          !.found_counts = (frame_count > 0)]} :
          CASE upload.kind = "none" ->
                 /\ Assign(selected)
                 /\ app' = session
                 /\ expected' = IF session.model_changed THEN NewObject ELSE expected
            [] upload.kind = "image" ->
                 \E h \in {handle_image(reset_output_stats(selected), upload.shot,
                                        mode, sku_lookup)} :
                    /\ Assign(h.self)
                    /\ app' = [session EXCEPT !.handler = "handle_image",
                                              !.outcome = h.outcome,
                                              !.displayed = h.displayed]
                    /\ expected' = Replay(NewObject, upload.shot)
            [] upload.kind = "video" ->
                 /\ Assign(reset_output_stats(selected))
                 /\ app' = IF upload.opened
                           THEN [session EXCEPT
                                   !.pc = "video", !.handler = "handle_video",
                                   !.outcome = "running",
                                   !.update_interval_frames = upload.update_interval_frames,
                                   !.cap = "open", !.tmp_file = TRUE]
                           ELSE [session EXCEPT !.handler = "handle_video",
                                                !.outcome = "not opened",
                                                !.cap = "unopened", !.tmp_file = TRUE]
                 /\ expected' = NewObject
    /\ label_mode' = mode
    /\ last_call' = "app.py"
    /\ ret' = None
    /\ UNCHANGED <<sku_lookup, stream, history_vars, recording, abandoned>>

\* the loop of handle_video takes the next frame of the video
HandleVideoFrame(shot) ==
    /\ app.pc = "video"
    /\ app.idx < MaxVideo
    /\ \E h \in {handle_video_frame(Self, app, shot, label_mode, sku_lookup)} :
          /\ Assign(h.self)
          /\ app' = h.session
    /\ expected' = Replay(expected, shot)
    /\ last_call' = "handle_video"
    /\ ret' = None
    /\ UNCHANGED <<label_mode, sku_lookup, stream, history_vars, recording, abandoned>>

\* the video has no further frame: the generator ends (on its first pull
\* after the reset it starts with), the loop is left and handle_video cleans up
HandleVideoEnd ==
    /\ app.pc = "video"
    /\ Assign(stream_entry(Self, IF app.idx = 0 THEN "created" ELSE "suspended"))
    /\ app' = handle_video_cleanup(app)
    /\ last_call' = "handle_video"
    /\ ret' = None
    /\ UNCHANGED <<label_mode, sku_lookup, stream, expected, history_vars, recording, abandoned>>

NextApp ==
    \/ \E model_selected \in model_choices, mode \in label_mode_options, upload \in Uploads :
          ScriptRun(model_selected, mode, upload)
    \/ \E shot \in Shots : HandleVideoFrame(shot)
    \/ HandleVideoEnd

AppSpec == InitSession /\ [][NextApp]_vars

(***************************************************************************)
(* Properties                                                              *)
(***************************************************************************)
TrackedIds(c) == Get(overall_tracked_ids, c, {})

Recorded == {c \in SkuCodes : TrackedIds(c) # {}}

\* C1: in every reachable state and for every class code c,
\* class_appearances[c] = |overall_tracked_ids[c]| = len(confidence[c]),
\* a class absent from a mapping counting as 0 or empty.
C1_Lockstep ==
    \A c \in SkuCodes :
        /\ Get(class_appearances, c, 0) = Cardinality(TrackedIds(c))
        /\ Len(Get(confidence, c, <<>>)) = Cardinality(TrackedIds(c))

\* a class holds two tracks, one of them sighted again, beside a second class
C1_Witness ==
    /\ Cardinality(TrackedIds("sku_1")) = 2
    /\ TrackedIds("sku_2") # {}
    /\ calls = 3

\* C2 (as stated): between two resets every (class code, track id) pair passed
\* in, however often, holds exactly one track id, one appearance and one
\* confidence sample of its class: the ids of a class are the ids submitted
\* under it, and the appearances and the samples are as many.
C2_DedupByPair ==
    \A c \in SkuCodes :
        LET ids == {p[2] : p \in {q \in submitted : q[1] = c}} IN
        /\ TrackedIds(c) = ids
        /\ Get(class_appearances, c, 0) = Cardinality(ids)
        /\ Len(Get(confidence, c, <<>>)) = Cardinality(ids)

\* C3: after a reset followed by K frame updates, frame_count = K, whatever
\* the frames hold.
C3_FrameCounting == frame_count = calls

\* three frame updates that recorded nothing, the last one of a frame without detections
C3_Witness ==
    /\ last_call = "track_picture_stream"
    /\ calls = 3
    /\ frame_count = 3
    /\ ret = EmptyDict

\* C4: after reset_output_stats, frame_count = 0 and the three per-class
\* mappings are empty.
C4_ResetClears ==
    last_call = "reset_output_stats" =>
        /\ frame_count = 0
        /\ overall_tracked_ids = EmptyDict
        /\ class_appearances = EmptyDict
        /\ confidence = EmptyDict

\* a reset of a store that held three frames and three tracks
C4_Witness ==
    /\ last_call = "reset_output_stats"
    /\ wiped = [frames |-> 3, tracks |-> 3]
    /\ frame_count = 0

\* C5 (as stated): a stream resets the store on start and yields one pair
\* per frame of the source: at the k-th pair frame_count = k and the store and
\* the live summary hold only detections of this stream's frames; when the
\* stream has ended, it has yielded as many pairs as the source gave frames.
C5_StreamYieldsEveryFrame ==
    /\ (last_call = "next" =>
            /\ frame_count = stream.yielded
            /\ \A c \in SkuCodes : \A t \in TrackedIds(c) : <<c, t>> \in submitted
            /\ \A c \in DOMAIN ret : <<c, ret[c]>> \in
                    {<<d, Cardinality({p \in submitted : p[1] = d})>> : d \in SkuCodes})
    /\ (stream.state \in {"exhausted", "raised"} => stream.yielded = stream.pulled)

\* C6 (as stated): the sample appended for a newly recorded track is the
\* confidence of the detection event that introduced it.
C6_SampleIsEventConfidence == \A e \in introduced : e.sample = e.conf

\* the per-class integer percentages of the summary
ConfidencePercent(c) == RoundHalfEven(SumSeq(confidence[c]), Len(confidence[c]))

PresencePercent(c) == RoundHalfEven(100 * class_appearances[c], frame_count)

\* the class codes of the store that the label l stands for
ClassesOf(l) == {c \in Recorded : key_value(c, label_mode, sku_lookup) = l}

\* the rounded unweighted mean of f over the classes S
MeanOver(f, S) == RoundHalfEven(SumOver(f, S), Cardinality(S))

\* C7: under a grouping key other than the class code, get_output_stats
\* emits exactly one record per distinct group label; its count is the sum of
\* the unique counts of the classes of that label, and its confidence and
\* frame presence are the rounded unweighted means of the per-class integer
\* percentages; so two classes of brand X with (80, 100) and (60, 100) and
\* count 1 each give the one record X, 2, 70, 100.
C7_GroupedSummary ==
    /\ (last_call = "get_output_stats" /\ label_mode # "sku_code" /\ frame_count > 0 =>
            /\ {r.label : r \in ret} = {key_value(c, label_mode, sku_lookup) : c \in Recorded}
            /\ Cardinality(ret) = Cardinality({r.label : r \in ret})
            /\ \A r \in ret :
                /\ r.count = SumOver([c \in Recorded |-> Cardinality(TrackedIds(c))],
                                     ClassesOf(r.label))
                /\ r.confidence =
                       IntToStr(MeanOver([c \in Recorded |-> ConfidencePercent(c)],
                                         ClassesOf(r.label)))
                /\ r.frame_presence =
                       IntToStr(MeanOver([c \in Recorded |-> PresencePercent(c)],
                                         ClassesOf(r.label))))
    /\ groupby([c \in {"sku_1", "sku_2"} |->
                  [label |-> "X", count |-> 1,
                   confidence |-> IF c = "sku_1" THEN <<8, 0>> ELSE <<6, 0>>,
                   frame_presence |-> <<1, 0, 0>>]])
         = {[label |-> "X", count |-> 2, confidence |-> <<7, 0>>,
             frame_presence |-> <<1, 0, 0>>]}

\* two classes of one brand, two tracks of the first and one of the second,
\* collapsed into one record of count 3
C7_Witness ==
    /\ last_call = "get_output_stats"
    /\ label_mode = "brand"
    /\ frame_count > 0
    /\ Cardinality(TrackedIds("sku_1")) = 2
    /\ Cardinality(TrackedIds("sku_2")) = 1
    /\ ConfidencePercent("sku_1") # ConfidencePercent("sku_2")
    /\ \E r \in ret : r.label = "X" /\ r.count = 3

\* C8 (as stated): under the class code as key and frame_count > 0,
\* get_output_stats emits one record per class with a non-empty id set, with
\* count = |ids|, confidence = round(mean(samples) * 100) and presence =
\* round(appearances / frame_count * 100); and after the three frames
\* (sku_1, 7, 0.9) / (sku_1, 7, 0.85), (sku_1, 8, 0.7) / none it emits the
\* single record sku_1, 2, 80, 67.
C8_SkuCodeSummary ==
    last_call = "get_output_stats" /\ label_mode = "sku_code" /\ frame_count > 0 =>
        /\ ret = { [label |-> c,
                    count |-> Cardinality(TrackedIds(c)),
                    confidence |-> IntToStr(ConfidencePercent(c)),
                    frame_presence |-> IntToStr(PresencePercent(c))] : c \in Recorded }
        /\ (scenario = 3 =>
                ret = {[label |-> "sku_1", count |-> 2, confidence |-> <<8, 0>>,
                        frame_presence |-> <<6, 7>>]})

\* C9 (as stated): the frame presence of every record get_output_stats emits
\* is a percentage of the processed frames, an integer between 0 and 100.
C9_PresenceIsPercentage ==
    last_call = "get_output_stats" =>
        \A r \in ret : StrToFloat(r.frame_presence) \in 0..100

\* the recorded classes whose catalog entry is missing or lacks the grouping key
Uncatalogued ==
    {c \in Recorded : c \notin DOMAIN sku_lookup \/ label_mode \notin DOMAIN sku_lookup[c]}

C11_InvalidKeyRejected ==
    requested \notin valid_label_modes => last_call = "InvalidConfiguration"

\* C12 (as stated): an event whose confidence cannot be obtained never
\* aborts the frame update or the stream: no frame update ends by the event's
\* exception, the stream goes on, and every event passed in since the last
\* reset, the malformed ones included, is recorded.
C12_MalformedEventDefaults ==
    /\ last_call \notin {"track_picture_stream raised", "next raised"}
    /\ stream.state # "raised"
    /\ (last_call \in {"track_picture_stream", "next"} =>
            \A p \in submitted : p[2] \in TrackedIds(p[1]))

\* C13: get_output_stats on a store with frame_count = 0 returns an empty
\* result, for every label mode and every catalog.
C13_EmptyWithoutFrames ==
    frame_count = 0 =>
        /\ (last_call = "get_output_stats" => ret = EmptyDataFrame)
        /\ \A mode \in valid_label_modes, lookup \in Catalogs :
              get_output_stats(Self, mode, lookup) = EmptyDataFrame

\* a summary asked of a store without frames, grouped by brand under the partial catalog
C13_Witness ==
    /\ last_call = "get_output_stats"
    /\ frame_count = 0
    /\ label_mode = "brand"
    /\ sku_lookup = CatalogPartial
    /\ ret = EmptyDataFrame

\* C14: get_output_stats never mutates the store: over every call, under
\* every label mode, frame_count, the track-id sets, class_appearances and the
\* confidence samples, the class keys of each mapping included, are the same
\* before and after, and so are the label mode and a stream in progress.
C14_SummaryReadsOnly ==
    [][last_call' = "get_output_stats" =>
          /\ UNCHANGED <<store_vars, label_mode, sku_lookup>>
          /\ (StreamLive => UNCHANGED stream)]_vars

\* a summary by brand taken in the middle of a stream, two frames in, with
\* two classes recorded
C14_Witness ==
    /\ last_call = "get_output_stats"
    /\ stream.state = "suspended"
    /\ label_mode = "brand"
    /\ frame_count = 2
    /\ Cardinality(Recorded) = 2

\* C15: the live summary a frame update returns is exactly the mapping from
\* each class code with a non-empty track-id set to the size of that set as it
\* is after the events of the frame; it has no entry of count 0 and none for
\* a class that was not detected since the last reset.
C15_LiveSummary ==
    last_call \in {"track_picture_stream", "next"} =>
        /\ DOMAIN ret = Recorded
        /\ \A c \in DOMAIN ret :
              /\ ret[c] = Cardinality(TrackedIds(c))
              /\ ret[c] > 0
              /\ \E p \in submitted : p[1] = c

\* a pull whose frame added a track: the summary lists two classes, the
\* first with two tracks
C15_Witness ==
    /\ last_call = "next"
    /\ introduced # {}
    /\ DOMAIN ret = {"sku_1", "sku_2"}
    /\ ret["sku_1"] = 2
    /\ ret["sku_2"] = 1

\* C17 (as stated): frame_count is incremented only after the events of the
\* frame were obtained and applied: a frame update that the detector's
\* failure ends leaves the whole store, frame_count included, as it was before
\* that frame (for the first pull of a stream: as the reset on entry left it).
C17_FailedFrameLeavesStore ==
    [][/\ (last_call' = "track_picture_stream detector failed" =>
              UNCHANGED store_vars)
       /\ (last_call' = "next detector failed" =>
              Assign(stream_entry(Self, stream.state)))]_vars

\* the (class code, track id) pairs recorded since the last reset
RecordedPairs ==
    Cardinality({p \in SkuCodes \X {d.tracker_id : d \in Detections} :
                    p[2] \in TrackedIds(p[1])})

\* the sum of the count field over the records of a summary
TotalCount(out) == SumOver([r \in out |-> r.count], out)

Reorderings(frame) ==
    { [i \in 1..Len(frame) |-> frame[p[i]]] : p \in Permutations(1..Len(frame)) }

\* what C19 compares of a frame update: the store without the samples, the
\* live summary and the records of the summary taken next
Outcome(r) ==
    [overall_tracked_ids |-> r.self.overall_tracked_ids,
     class_appearances |-> r.self.class_appearances,
     frame_count |-> r.self.frame_count,
     live_summary |-> r.live_summary,
     output_stats |-> get_output_stats(r.self, label_mode, sku_lookup)]

\* C19 (as stated): the result of a frame update does not depend on the
\* order of the events inside the frame: from every reachable store, every
\* reordering of a frame leaves the same track-id sets, class_appearances and
\* frame_count and gives the same live summary and summary records.
C19_OrderIndependent ==
    \A frame \in Frames : \A other \in Reorderings(frame) :
        Outcome(track_picture_stream(Self, frame)) =
            Outcome(track_picture_stream(Self, other))

\* C16: the store is reset at the start of every new image or video and
\* whenever the selected model changes, before a frame of the new upload or
\* model is counted: in every state of the app the store holds nothing after a
\* model change without upload, and otherwise the frames of the current upload
\* alone, aggregated from an empty store.
C16_NoMixing ==
    /\ Self = expected
    /\ (app.model_changed /\ app.handler = "none" => Self = NewObject)
    /\ (app.handler = "handle_image" => frame_count = 1)
    /\ (app.handler = "handle_video" => frame_count <= app.idx + 1)

\* in the second frame of a video, uploaded under a newly selected model
\* while the store still held the counts of an earlier upload
C16_Witness ==
    /\ app.pc = "video"
    /\ app.idx = 2
    /\ app.found_counts
    /\ app.model_changed
    /\ frame_count = 2
    /\ Recorded # {}

\* C20 (as stated): handle_video refreshes the table on the first frame and
\* then whenever update_interval_frames frames have passed since the last
\* refresh; and when it has finished a video, the table last displayed is
\* get_output_stats of the store after the final frame.
C20_FinalDisplay ==
    app.handler = "handle_video" =>
        /\ (app.outcome \in {"running", "done"} =>
              app.refreshed = {i \in 0..(app.idx - 1) : i % app.update_interval_frames = 0})
        /\ (app.outcome = "done" =>
              app.displayed.rows = get_output_stats(Self, label_mode, sku_lookup))

\* the outcomes of a frame update, by a direct call and by a pull of a stream
DirectUpdates == {"track_picture_stream", "track_picture_stream raised",
                  "track_picture_stream detector failed"}

PullUpdates == {"next", "next raised", "next detector failed"}

\* store b holds all that store a holds, each sample at its position, and one frame more
GrownByOneFrame(a, b) ==
    /\ b.frame_count = a.frame_count + 1
    /\ \A c \in DOMAIN a.overall_tracked_ids :
          /\ c \in DOMAIN b.overall_tracked_ids
          /\ a.overall_tracked_ids[c] \subseteq b.overall_tracked_ids[c]
    /\ \A c \in DOMAIN a.class_appearances :
          /\ c \in DOMAIN b.class_appearances
          /\ a.class_appearances[c] <= b.class_appearances[c]
    /\ \A c \in DOMAIN a.confidence :
          /\ c \in DOMAIN b.confidence
          /\ Len(a.confidence[c]) <= Len(b.confidence[c])
          /\ \A i \in 1..Len(a.confidence[c]) : b.confidence[c][i] = a.confidence[c][i]

\* the store after the step
SelfAfter ==
    [frame_count |-> frame_count',
     class_appearances |-> class_appearances',
     overall_tracked_ids |-> overall_tracked_ids',
     confidence |-> confidence']

\* C22: monotonic growth between resets: every frame update leaves each
\* class's track-id set a superset of what it was, never decreases
\* class_appearances, only appends to the confidence samples and adds exactly
\* 1 to frame_count; the counts of successive live summaries of a stream never
\* decrease; and a step that is no frame update and no reset leaves the store.
C22_MonotonicGrowth ==
    [][/\ (last_call' \in DirectUpdates => GrownByOneFrame(Self, SelfAfter))
       /\ (last_call' \in PullUpdates =>
              GrownByOneFrame(stream_entry(Self, stream.state), SelfAfter))
       /\ (last_call = "next" /\ last_call' = "next" =>
              \A c \in DOMAIN ret : c \in DOMAIN ret' /\ ret[c] <= ret'[c])
       /\ (last_call' \notin DirectUpdates \cup PullUpdates
                                \cup {"reset_output_stats", "next stopped"} =>
              UNCHANGED store_vars)]_vars

\* the third pull of a stream added a second track to a class whose first
\* sample is kept
C22_Witness ==
    /\ last_call = "next"
    /\ stream.yielded = 3
    /\ introduced # {}
    /\ Cardinality(TrackedIds("sku_1")) = 2
    /\ Len(Get(confidence, "sku_1", <<>>)) = 2
    /\ ret = [c \in {"sku_1"} |-> 2]

\* C21 (as stated): cancellation by not pulling: when the caller stops
\* pulling a stream after j pairs, the store is left with frame_count = j and
\* in lockstep; the abandoned generator takes no further frame, and dropping it
\* changes nothing; and a later stream on the same store, also one started
\* while the abandoned generator still exists, counts from an empty store.
C21_CancelByNotPulling ==
    [][/\ (last_call' = "abandon" =>
              /\ frame_count' = stream.yielded
              /\ \A c \in SkuCodes :
                    /\ Get(class_appearances', c, 0) =
                           Cardinality(Get(overall_tracked_ids', c, {}))
                    /\ Len(Get(confidence', c, <<>>)) =
                           Cardinality(Get(overall_tracked_ids', c, {})))
       /\ (last_call' = "discard" => UNCHANGED <<store_vars, stream>>)
       /\ (last_call' = "next" => frame_count' = stream'.yielded)]_vars

\* C23 (as stated): the resources handle_video acquires are released on
\* every exit path: when it has ended, by completion, because the video could
\* not be opened, or because detection failed in the middle, the capture
\* handle is not held open and the temporary file is deleted.
C23_ResourcesReleased ==
    app.handler = "handle_video" /\ app.pc = "idle" =>
        /\ app.cap # "open"
        /\ ~app.tmp_file

====
